---- MODULE Spec2Model ----
(***************************************************************************)
(* State-machine model of devlib/instrument/acmecape.py:                   *)
(* AcmeCapeInstrument (reset, start, stop, get_data) together with the     *)
(* external iio-capture processes and the raw CSV files they write.        *)
(*                                                                         *)
(* Python values are modelled as follows.                                  *)
(*   - a CSV field is a string of decimal digits: a sequence of digits,    *)
(*     <<1, 0>> for '10' (csv.DictReader never converts a field);          *)
(*   - an instance attribute that holds a list is named in `assigned`;     *)
(*     an attribute outside `assigned` is None (processes, set to None by  *)
(*     __init__) or missing (commands, raw_data_files, process);           *)
(*   - an exception ends the running call with its class name as result.   *)
(***************************************************************************)
EXTENDS Integers, Sequences, FiniteSets, TLC

\* ---------------------------------------------------------------- bounds
MaxCalls == 4   \* calls of reset/start/stop/get_data in one behaviour
MaxProcs == 3   \* processes launched in one behaviour

\* ------------------------------------------------------ program constants
timeout_secs == 10  \* polls of the grace window in stop()
SENTINEL     == 15  \* exit status of iio-capture when terminated

\* ---------------------------------------------------------------- values
\* The devices of the merge scenario.
Devices == {"A", "B"}

Range(s) == {s[i] : i \in DOMAIN s}

Injective(s) == \A i, j \in DOMAIN s : s[i] = s[j] => i = j

\* The iio_devices argument of the constructor: a list of distinct devices.
DeviceLists ==
    {l \in UNION {[1..n -> Devices] : n \in 0..Cardinality(Devices)} :
        Injective(l)}

\* The channels __init__ registers for one device, in registration order.
ChannelsOf(device) ==
    << [label |-> <<"shunt", device, "voltage">>, iio_device |-> device,
        iio_column |-> "vshunt mV"],
       [label |-> <<"bus", device, "voltage">>, iio_device |-> device,
        iio_column |-> "vbus mV"],
       [label |-> <<"device", device, "power">>, iio_device |-> device,
        iio_column |-> "power mW"],
       [label |-> <<"device", device, "current">>, iio_device |-> device,
        iio_column |-> "current mA"],
       [label |-> <<"timestamp", device, "time_ms">>, iio_device |-> device,
        iio_column |-> "timestamp ms"] >>

RECURSIVE Flatten(_)
Flatten(ss) == IF ss = <<>> THEN <<>> ELSE Head(ss) \o Flatten(Tail(ss))

SelectChannels(chans, columns) ==
    SelectSeq(chans, LAMBDA c : c.iio_column \in columns)

\* The column sets a caller's reset(sites, kinds, channels) may select.
ColumnChoices == {{"vbus mV"}, {"timestamp ms", "vbus mV"}}

\* The active channels a reset may leave behind: the channels of the chosen
\* devices (sites) restricted to the chosen columns, in device-list order.
ActiveChoices(devs) ==
    {Flatten([i \in DOMAIN devs |->
                 IF devs[i] \in D THEN SelectChannels(ChannelsOf(devs[i]), cols)
                 ELSE <<>>]) :
        D \in SUBSET Range(devs), cols \in ColumnChoices}

\* ---------------------------------------------------------- raw artifacts
HEADER == <<"timestamp ms", "vbus mV">>

\* A raw CSV file: its header line and its data rows, a row being one digit
\* string per header column. The zero-length file has neither.
ArtEmpty == [header |-> <<>>, rows |-> <<>>]
\* device A of the merge scenario: timestamps 0, 10, 20
ArtA == [header |-> HEADER,
         rows |-> << <<<<0>>, <<1>>>>, <<<<1, 0>>, <<2>>>>, <<<<2, 0>>, <<3>>>> >>]
\* device B of the merge scenario: timestamps 0, 5, 15, 25
ArtB == [header |-> HEADER,
         rows |-> << <<<<0>>, <<4>>>>, <<<<5>>, <<5>>>>, <<<<1, 5>>, <<6>>>>,
                     <<<<2, 5>>, <<7>>>> >>]

\* device X of the end-to-end scenario: rows (0, 100), (10, 105)
ArtX == [header |-> HEADER,
         rows |-> << <<<<0>>, <<1, 0, 0>>>>, <<<<1, 0>>, <<1, 0, 5>>>> >>]
\* device M: a capture whose header has no 'vbus mV' column
ArtM == [header |-> <<"timestamp ms">>, rows |-> << <<<<0>>>>, <<<<1, 0>>>> >>]
\* devices P and Q: captures that start at timestamps 5 and 10
ArtP == [header |-> HEADER,
         rows |-> << <<<<5>>, <<1>>>>, <<<<1, 5>>, <<2>>>> >>]
ArtQ == [header |-> HEADER,
         rows |-> << <<<<1, 0>>, <<3>>>>, <<<<2, 0>>, <<4>>>> >>]

\* The device lists of these scenarios.
ScenarioLists == {<<"X">>, <<"M">>, <<"P", "Q">>}

\* What iio-capture writes to its output file for a device.
CaptureOf(device) ==
    CASE device = "A" -> ArtA
      [] device = "B" -> ArtB
      [] device = "X" -> ArtX
      [] device = "M" -> ArtM
      [] device = "P" -> ArtP
      [] device = "Q" -> ArtQ

FileSize(art) == Len(art.header) + Len(art.rows)

VARIABLES
    iio_devices,     \* self.iio_devices
    assigned,        \* names of the attributes of self that hold a list
    commands,        \* self.commands: per device, the device and its outfile
    raw_data_files,  \* self.raw_data_files: paths (file ids)
    processes,       \* self.processes: Popen handles (indices into procs)
    active_channels, \* self.active_channels
    procs,           \* every process ever launched
    files,           \* every file ever created by mkstemp
    pc,              \* position of the running call, "idle" between calls
    op,              \* the call running or last run
    result,          \* "ok", an exception class, or "none" while running
    ncalls,          \* calls made so far
    phase,           \* history: the supervisor state the calls so far give
    stop_i,          \* stop(): index of the zip pair in hand
    polls,           \* stop(): iterations of the poll loop done
    active_devices,  \* get_data(): the set active_devices
    readers,         \* get_data(): the dict readers
    outfile          \* get_data(): the combined CSV written

vars == <<iio_devices, assigned, commands, raw_data_files, processes,
          active_channels, procs, files, pc, op, result, ncalls, phase,
          stop_i, polls, active_devices, readers, outfile>>

inst_vars == <<iio_devices, assigned, commands, raw_data_files, processes,
               active_channels>>
stop_vars == <<stop_i, polls>>
gd_vars == <<active_devices, readers, outfile>>

NoOutfile == [header |-> <<>>, rows |-> <<>>, open |-> FALSE]

\* The instrument as __init__ leaves it, constructed with one of the lists.
InitWith(lists) ==
    /\ iio_devices \in lists
    /\ assigned = {}
    /\ commands = <<>>
    /\ raw_data_files = <<>>
    /\ processes = <<>>
    /\ active_channels = <<>>
    /\ procs = <<>>
    /\ files = <<>>
    /\ pc = "idle"
    /\ op = "none"
    /\ result = "none"
    /\ ncalls = 0
    /\ phase = "Idle"
    /\ stop_i = 0
    /\ polls = 0
    /\ active_devices = {}
    /\ readers = <<>>
    /\ outfile = NoOutfile

Init == InitWith(DeviceLists)

ScenarioInit == InitWith(ScenarioLists)

\* The supervisor state after a call has ended with result res: Armed after
\* a reset, Running after a start made when Armed, Stopped after a stop made
\* when Running. The instrument holds no such field: phase records what the
\* calls made so far amount to, and no action reads it.
PhaseAfter(call, res) ==
    IF call = "reset" THEN "Armed"
    ELSE IF call = "start" /\ res = "ok" /\ phase = "Armed" THEN "Running"
    ELSE IF call = "stop" /\ phase = "Running" THEN "Stopped"
    ELSE phase

\* A caller makes one call at a time.
CanCall == pc = "idle" /\ ncalls < MaxCalls

Begin(name) ==
    /\ op' = name
    /\ ncalls' = ncalls + 1

Return ==
    /\ pc' = "idle"
    /\ result' = "ok"

Raise(exc) ==
    /\ pc' = "idle"
    /\ result' = exc

\* ------------------------------------------------------------------ reset
\* A reset that makes one temporary file and hands it to every device.
mkstemp_once(k) == Len(files) + 1

\* tempfile.mkstemp: creates a new, empty file under a name no file has (the
\* k-th call of a reset).
mkstemp(k) == Len(files) + k

\* reset(): the base class sets active_channels; then one fresh raw data file
\* and one command per device, in device order.
reset ==
    /\ CanCall
    /\ Begin("reset")
    /\ active_channels' \in ActiveChoices(iio_devices)
    /\ raw_data_files' = [k \in DOMAIN iio_devices |-> mkstemp(k)]
    /\ commands' = [k \in DOMAIN iio_devices |->
                       [iio_device |-> iio_devices[k], outfile |-> mkstemp(k)]]
    /\ files' = files \o [k \in DOMAIN iio_devices |->
                             [exists |-> TRUE, data |-> ArtEmpty]]
    /\ assigned' = assigned \cup {"commands", "raw_data_files"}
    /\ phase' = PhaseAfter("reset", "ok")
    /\ Return
    /\ UNCHANGED <<iio_devices, processes, procs, stop_vars, gd_vars>>

\* ------------------------------------------------------------------ start
\* Popen(command.split(), stdout=PIPE, stderr=STDOUT): a new running process
\* writing to the command's outfile.
Popen(command) ==
    [iio_device |-> command.iio_device, outfile |-> command.outfile,
     alive |-> TRUE, status |-> 0,
     returncode |-> FALSE, term |-> FALSE]

\* start(): self.processes = [], then one Popen per command, in order. A
\* start before any reset finds no attribute commands. Popen raises OSError
\* when the process cannot be spawned: the n processes before it stay.
start ==
    /\ CanCall
    /\ Len(procs) + Len(commands) <= MaxProcs
    /\ Begin("start")
    /\ assigned' = assigned \cup {"processes"}
    /\ IF "commands" \notin assigned
       THEN /\ processes' = <<>>
            /\ Raise("AttributeError")
            /\ phase' = PhaseAfter("start", "AttributeError")
            /\ UNCHANGED procs
       ELSE \E n \in 0..Len(commands) :
              /\ processes' = [k \in 1..n |-> Len(procs) + k]
              /\ procs' = procs \o [k \in 1..n |-> Popen(commands[k])]
              /\ IF n = Len(commands)
                 THEN /\ Return
                      /\ phase' = PhaseAfter("start", "ok")
                 ELSE /\ Raise("OSError")
                      /\ phase' = PhaseAfter("start", "OSError")
    /\ UNCHANGED <<iio_devices, commands, raw_data_files, active_channels,
                   files, stop_vars, gd_vars>>

\* ------------------------------------------------- the external processes
\* iio-capture exits with the sentinel status when terminated, and with
\* another status on an error of its own.
ExitStatuses(proc) == IF proc.term THEN {SENTINEL, 1} ELSE {1}

\* What a process leaves of its output file when it exits: the file as
\* mkstemp made it, a capture, or no file at all.
FinalFiles(device) ==
    {[exists |-> TRUE, data |-> ArtEmpty],
     [exists |-> TRUE, data |-> CaptureOf(device)],
     [exists |-> FALSE, data |-> ArtEmpty]}

\* A running process exits, leaving its output file behind. (A file that an
\* earlier process on the same path has already left is not written again.)
ProcExit ==
    \E p \in DOMAIN procs, st \in {SENTINEL, 1} :
      \E left \in FinalFiles(procs[p].iio_device) :
        /\ procs[p].alive
        /\ st \in ExitStatuses(procs[p])
        /\ procs' = [procs EXCEPT ![p].alive = FALSE, ![p].status = st]
        /\ LET f == procs[p].outfile IN
           IF files[f] = [exists |-> TRUE, data |-> ArtEmpty]
           THEN files' = [files EXCEPT ![f] = left]
           ELSE left = files[f] /\ UNCHANGED files
        /\ UNCHANGED <<inst_vars, pc, op, result, ncalls, phase,
                       stop_vars, gd_vars>>

\* ------------------------------------------------------------------- stop
\* The HostErrors stop() raises, by their messages (lines 104-105, 108, 111).
UngracefulShutdown == "HostError: Could not terminate iio-capture"
AbnormalExit == "HostError: iio-capture exited with an error"
OutputMissing == "HostError: Output CSV not generated."

\* zip(a, b): pairs up to the shorter list.
ZipLen(a, b) == IF Len(a) <= Len(b) THEN Len(a) ELSE Len(b)

\* stop() ends, and its locals with it.
EndStop(res) ==
    /\ pc' = "idle"
    /\ result' = res
    /\ phase' = PhaseAfter("stop", res)
    /\ stop_i' = 0
    /\ polls' = 0

\* stop(), line 91: zip(self.processes, self.raw_data_files). Without a reset
\* there is no attribute raw_data_files; without a start processes is None.
stop ==
    /\ CanCall
    /\ Begin("stop")
    /\ IF "raw_data_files" \notin assigned
       THEN EndStop("AttributeError")
       ELSE IF "processes" \notin assigned
       THEN EndStop("TypeError")
       ELSE IF ZipLen(processes, raw_data_files) = 0
       THEN EndStop("ok")
       ELSE /\ pc' = "stop_terminate"
            /\ result' = "none"
            /\ stop_i' = 1
            /\ polls' = 0
            /\ UNCHANGED phase
    /\ UNCHANGED <<inst_vars, procs, files, gd_vars>>

\* line 92: process.terminate(), then lines 93-94. On a handle whose exit
\* poll() has already collected (an earlier stop), Popen.send_signal either
\* calls os.kill on the collected pid, which raises OSError, or, from
\* Python 2.7.11 on, sends nothing: both are outcomes.
stop_terminate ==
    /\ pc = "stop_terminate"
    /\ LET p == processes[stop_i] IN
       \/ /\ procs[p].returncode
          /\ EndStop("OSError")
          /\ UNCHANGED procs
       \/ /\ procs' = [procs EXCEPT ![p].term = @ \/ ~procs[p].returncode]
          /\ polls' = 0
          /\ pc' = "stop_poll"
          /\ UNCHANGED <<result, phase, stop_i>>
    /\ UNCHANGED <<inst_vars, files, op, ncalls, gd_vars>>

\* A poll loop of one iteration more.
LoopEnds_late(n) == n = timeout_secs + 1

\* line 95: xrange(timeout_secs) is exhausted after n iterations.
LoopEnds(n) == n = timeout_secs

\* lines 95-98: one iteration of the poll loop. poll() sets the handle's
\* returncode once the process has exited, and the loop breaks; otherwise
\* the loop sleeps, and after timeout_secs iterations takes its else branch.
stop_poll ==
    /\ pc = "stop_poll"
    /\ LET p == processes[stop_i] IN
       IF ~procs[p].alive
       THEN /\ procs' = [procs EXCEPT ![p].returncode = TRUE]
            /\ pc' = "stop_exited"
            /\ UNCHANGED polls
       ELSE /\ polls' = polls + 1
            /\ pc' = IF LoopEnds(polls + 1) THEN "stop_timeout"
                     ELSE "stop_poll"
            /\ UNCHANGED procs
    /\ UNCHANGED <<inst_vars, files, op, result, ncalls, phase, stop_i,
                   gd_vars>>

\* line 100, the else branch of the poll loop: self.process.stdout. No line
\* of the class assigns an attribute process (__init__ assigns command and
\* processes), so the lookup raises AttributeError; lines 101-105, the kill
\* and the HostError, are not reached.
stop_timeout ==
    /\ pc = "stop_timeout"
    /\ "process" \notin assigned
    /\ EndStop("AttributeError")
    /\ UNCHANGED <<inst_vars, procs, files, op, ncalls, gd_vars>>

\* line 106, after the break: self.process.returncode. The same lookup
\* raises AttributeError; the exit-status check, the HostError of line 108
\* and the os.path.isfile check of line 110 are not reached.
stop_exited ==
    /\ pc = "stop_exited"
    /\ "process" \notin assigned
    /\ EndStop("AttributeError")
    /\ UNCHANGED <<inst_vars, procs, files, op, ncalls, gd_vars>>

\* --------------------------------------------------------------- get_data
\* DeviceReader.__init__: csv.DictReader over the open file, and the first
\* next(): the header line becomes the field names, the first data row the
\* current row.
DeviceReader(raw_data_file, columns) ==
    [data |-> files[raw_data_file].data, pos |-> 1, columns |-> columns,
     finished |-> FALSE]

\* DeviceReader._current_row: the dict csv.DictReader made of the row.
CurrentDict(reader) ==
    [c \in Range(reader.data.header) |->
        reader.data.rows[reader.pos]
            [CHOOSE i \in DOMAIN reader.data.header : reader.data.header[i] = c]]

\* DeviceReader.timestamp: the field as read, a string.
timestamp(reader) == CurrentDict(reader)["timestamp ms"]

\* DeviceReader.current_row: a list, one value per column of the reader.
current_row(reader) ==
    [k \in DOMAIN reader.columns |-> CurrentDict(reader)[reader.columns[k]]]

\* DeviceReader.pop_row: the next row, or finished at the end of the file.
pop_row(reader) ==
    IF reader.pos < Len(reader.data.rows)
    THEN [reader EXCEPT !.pos = reader.pos + 1]
    ELSE [reader EXCEPT !.finished = TRUE]

\* line 136: the devices of the active channels.
ActiveDevices == {active_channels[k].iio_device : k \in DOMAIN active_channels}

\* lines 149-150: the columns of the active channels of one device.
ColumnsOf(device) ==
    LET mine == SelectSeq(active_channels, LAMBDA c : c.iio_device = device)
    IN  [k \in DOMAIN mine |-> mine[k].iio_column]

\* A line 140 that skips no device.
Selected_any(device) == TRUE

\* line 140: the device has a channel in the active set.
Selected(device) == device \in ActiveDevices

\* lines 138-151: the loop that opens the readers, from pair k on; rs is the
\* dict so far. os.stat of a missing file raises OSError; the first next() on
\* a file with a header and no data row raises StopIteration.
RECURSIVE OpenReaders(_, _)
OpenReaders(k, rs) ==
    IF k > ZipLen(iio_devices, raw_data_files)
    THEN [exc |-> "none", readers |-> rs]
    ELSE LET device == iio_devices[k]
             raw_data_file == raw_data_files[k]
         IN  IF ~Selected(device)
             THEN OpenReaders(k + 1, rs)
             ELSE IF ~files[raw_data_file].exists
             THEN [exc |-> "OSError", readers |-> rs]
             ELSE IF FileSize(files[raw_data_file].data) = 0
             THEN OpenReaders(k + 1, rs)
             ELSE IF files[raw_data_file].data.rows = <<>>
             THEN [exc |-> "StopIteration", readers |-> rs]
             ELSE OpenReaders(k + 1,
                      (device :> DeviceReader(raw_data_file, ColumnsOf(device)))
                      @@ rs)

\* get_data(), lines 136-158: the active devices, the readers, and the
\* header row of the combined output.
get_data ==
    /\ CanCall
    /\ Begin("get_data")
    /\ IF "raw_data_files" \notin assigned
       THEN Raise("AttributeError") /\ UNCHANGED gd_vars
       ELSE LET opened == OpenReaders(1, <<>>) IN
            IF opened.exc # "none"
            THEN Raise(opened.exc) /\ UNCHANGED gd_vars
            ELSE /\ active_devices' = ActiveDevices
                 /\ readers' = opened.readers
                 /\ outfile' = [header |-> [k \in DOMAIN active_channels |->
                                               active_channels[k].label],
                                rows |-> <<>>, open |-> TRUE]
                 /\ pc' = "get_data_loop"
                 /\ result' = "none"
    /\ UNCHANGED <<inst_vars, procs, files, phase, stop_vars>>

\* list[key] with a column name as key: list indices must be integers.
ListGetItem(list, key) == [exc |-> "TypeError", value |-> <<>>]

\* lines 161-164: the combined row, channel by channel, from channel k on.
\* readers[device] raises KeyError for a device without a reader, the dict
\* lookups of current_row raise KeyError for a column the file's header
\* lacks, and the list current_row returns is then indexed by column name.
RECURSIVE BuildRow(_, _)
BuildRow(k, row) ==
    IF k > Len(active_channels)
    THEN [exc |-> "none", row |-> row]
    ELSE LET channel == active_channels[k] IN
         IF channel.iio_device \notin DOMAIN readers
         THEN [exc |-> "KeyError", row |-> row]
         ELSE LET reader == readers[channel.iio_device] IN
              IF ~(Range(reader.columns) \subseteq Range(reader.data.header))
              THEN [exc |-> "KeyError", row |-> row]
              ELSE LET item == ListGetItem(current_row(reader),
                                           channel.iio_column)
                   IN  IF item.exc # "none"
                       THEN [exc |-> item.exc, row |-> row]
                       ELSE BuildRow(k + 1, Append(row, item.value))

\* Python 2 compares two str lexicographically.
RECURSIVE StrLess(_, _)
StrLess(a, b) ==
    IF b = <<>> THEN FALSE
    ELSE IF a = <<>> THEN TRUE
    ELSE IF Head(a) # Head(b) THEN Head(a) < Head(b)
    ELSE StrLess(Tail(a), Tail(b))

\* line 168: min(active_devices, key=...timestamp) is some device no other
\* device's timestamp is less than.
MinDevices ==
    {d \in active_devices :
        \A e \in active_devices :
            ~StrLess(timestamp(readers[e]), timestamp(readers[d]))}

\* get_data() ends from the merge loop: the with block closes the combined
\* output, and the locals are gone.
EndGetData(res, rows) ==
    /\ pc' = "idle"
    /\ result' = res
    /\ outfile' = [outfile EXCEPT !.open = FALSE, !.rows = rows]
    /\ active_devices' = {}
    /\ readers' = <<>>

\* lines 160-171: one iteration of the merge loop. The row is built and
\* written, the device of the minimum timestamp is looked up, and its reader,
\* when finished, is removed from the set of devices; pop_row is not called.
\* set.remove of a reader raises KeyError: the set holds devices.
get_data_loop ==
    /\ pc = "get_data_loop"
    /\ active_devices # {}
    /\ LET built == BuildRow(1, <<>>) IN
       IF built.exc # "none"
       THEN EndGetData(built.exc, outfile.rows)
       ELSE \E device_to_pop \in MinDevices :
              IF readers[device_to_pop].finished
              THEN EndGetData("KeyError", Append(outfile.rows, built.row))
              ELSE /\ outfile' = [outfile EXCEPT !.rows = Append(@, built.row)]
                   /\ UNCHANGED <<pc, result, active_devices, readers>>
    /\ UNCHANGED <<inst_vars, procs, files, op, ncalls, phase, stop_vars>>

\* line 173: the loop has ended, the combined output is returned.
get_data_return ==
    /\ pc = "get_data_loop"
    /\ active_devices = {}
    /\ EndGetData("ok", outfile.rows)
    /\ UNCHANGED <<inst_vars, procs, files, op, ncalls, phase, stop_vars>>

\* ---------------------------------------------------------- specification
Next ==
    \/ reset
    \/ start
    \/ stop
    \/ stop_terminate
    \/ stop_poll
    \/ stop_timeout
    \/ stop_exited
    \/ get_data
    \/ get_data_loop
    \/ get_data_return
    \/ ProcExit

Spec == Init /\ [][Next]_vars

\* The same instrument constructed for the scenario devices.
ScenarioSpec == ScenarioInit /\ [][Next]_vars

\* ================================================================= claims
\* The device in hand in stop(): its process and its raw data file.
StopProc == procs[processes[stop_i]]
StopFile == files[raw_data_files[stop_i]]

\* stop() takes its step after the poll loop (the processes may take steps
\* of their own meanwhile).
StopActs == pc \in {"stop_timeout", "stop_exited"} /\ pc' # pc

\* stop() goes on to the next device, or returns when there is none.
StopGoesOn ==
    \/ pc' = "stop_terminate" /\ stop_i' = stop_i + 1
    \/ pc' = "idle" /\ result' = "ok"

\* C1: stop() on a device whose process exited within the grace window with
\* the sentinel status 15 and whose raw data file exists raises no failure:
\* it goes on to the next device, or returns normally after the last one.
C1_GracefulStopSucceeds ==
    [][(/\ StopActs
        /\ pc = "stop_exited"
        /\ StopProc.status = SENTINEL
        /\ StopFile.exists)
       => StopGoesOn]_vars

\* C1 case: the poll loop has found the process exited with status 15, and
\* its raw data file exists.
C1_Case ==
    /\ pc = "stop_exited"
    /\ StopProc.status = SENTINEL
    /\ StopProc.returncode
    /\ StopFile.exists

\* C2: stop() on a device whose process is still running after all polls
\* of the grace window fails with UngracefulShutdown, and the process has
\* been killed when the failure is raised.
C2_TimeoutKillsAndFails ==
    [][(StopActs /\ pc = "stop_timeout")
       => /\ pc' = "idle"
          /\ result' = UngracefulShutdown
          /\ ~procs'[processes[stop_i]].alive]_vars

\* C2 case: the process is still running after all the polls.
C2_Case ==
    /\ pc = "stop_timeout"
    /\ polls = timeout_secs
    /\ StopProc.alive

\* C3: stop() on a device whose process exited within the grace window with
\* a status other than 15 fails with AbnormalExit (the HostError that
\* carries the exit status and the captured output).
C3_AbnormalExitFails ==
    [][(StopActs /\ pc = "stop_exited" /\ StopProc.status # SENTINEL)
       => (pc' = "idle" /\ result' = AbnormalExit)]_vars

\* C3 case: the poll loop has found the process exited with status 1.
C3_Case ==
    /\ pc = "stop_exited"
    /\ StopProc.returncode
    /\ StopProc.status = 1

\* C4: after a device's process exited with the sentinel status, the
\* absence of its raw data file makes stop() fail with OutputMissing.
C4_MissingOutputFails ==
    [][(/\ StopActs
        /\ pc = "stop_exited"
        /\ StopProc.status = SENTINEL
        /\ ~StopFile.exists)
       => (pc' = "idle" /\ result' = OutputMissing)]_vars

\* C4 case: the process exited with status 15 and its file is gone.
C4_Case ==
    /\ pc = "stop_exited"
    /\ StopProc.status = SENTINEL
    /\ ~StopFile.exists

\* The failure of the teardown of the device in hand, "none" without one.
TeardownFailure ==
    IF pc = "stop_timeout" THEN UngracefulShutdown
    ELSE IF StopProc.status # SENTINEL THEN AbnormalExit
    ELSE IF ~StopFile.exists THEN OutputMissing
    ELSE "none"

\* C5: stop() handles the devices in order and is fail-fast: a device whose
\* teardown does not fail lets stop() go on, the first device whose teardown
\* fails makes stop() raise that device's failure, and no later device has
\* been signaled by then.
C5_FailFastInDeviceOrder ==
    [][StopActs
       => /\ IF TeardownFailure = "none" THEN StopGoesOn
             ELSE pc' = "idle" /\ result' = TeardownFailure
          /\ \A j \in DOMAIN processes :
                 j > stop_i => ~procs'[processes[j]].term]_vars

\* C5 case: the first of two devices has exited cleanly within its grace
\* window, and the second is yet to be handled.
C5_Case ==
    /\ pc = "stop_exited"
    /\ stop_i = 1
    /\ Len(processes) = 2
    /\ TeardownFailure = "none"

\* C6: start is carried out only when the supervisor is Armed, stop only
\* when it is Running, data retrieval only when it is Stopped: in any other
\* state no process is launched, no process is signaled, no raw data file
\* is opened.
C6_CallsOnlyInTheirState ==
    [][/\ Len(procs') > Len(procs) => phase = "Armed"
       /\ (\E p \in DOMAIN procs : procs'[p].term /\ ~procs[p].term)
              => phase = "Running"
       /\ (DOMAIN readers = {} /\ DOMAIN readers' # {})
              => phase = "Stopped"]_vars

\* C6 case: reset, start and a second start, made when Running, have
\* launched two processes for the one device.
C6_Case ==
    /\ phase = "Running"
    /\ op = "start"
    /\ result = "ok"
    /\ ncalls = 3
    /\ Len(iio_devices) = 1
    /\ Len(procs) = 2

\* C7: reset followed by start yields exactly one live process per
\* configured device, the i-th launched for the i-th device and writing the
\* i-th raw data file; the raw data files are pairwise distinct, and no
\* other live process writes any of them.
C7_OneLiveProcessPerDevice ==
    [][(op = "reset" /\ pc = "idle" /\ op' = "start" /\ result' = "ok")
       => /\ Len(processes') = Len(iio_devices)
          /\ Len(raw_data_files') = Len(iio_devices)
          /\ Injective(raw_data_files')
          /\ \A i \in DOMAIN iio_devices :
               /\ procs'[processes'[i]].alive
               /\ procs'[processes'[i]].iio_device = iio_devices[i]
               /\ procs'[processes'[i]].outfile = raw_data_files'[i]
               /\ files'[raw_data_files'[i]].exists
               /\ {p \in DOMAIN procs' :
                      procs'[p].alive /\ procs'[p].outfile = raw_data_files'[i]}
                    = {processes'[i]}]_vars

\* C7 witness: a reset then a start have given two devices a live process
\* each.
C7_Witness ==
    /\ ncalls = 2
    /\ op = "start"
    /\ result = "ok"
    /\ Len(iio_devices) = 2
    /\ \A i \in DOMAIN processes : procs[processes[i]].alive

\* The number a digit string denotes.
RECURSIVE NumberOf(_)
NumberOf(str) ==
    IF str = <<>> THEN 0
    ELSE 10 * NumberOf(SubSeq(str, 1, Len(str) - 1)) + str[Len(str)]

\* get_data() takes a merge step: the loop condition holds, and the step is
\* not one of a process.
MergeStep == pc = "get_data_loop" /\ active_devices # {} /\ procs' = procs

\* C8: in every merge step (each active device with its reader) the
\* combined row is written and then exactly one
\* reader is advanced by one row, that of a device whose current timestamp
\* is the minimum among the active devices; every other reader keeps its
\* row.
C8_MergeStepAdvancesOneMinimum ==
    [][(MergeStep /\ active_devices \subseteq DOMAIN readers)
       => /\ Len(outfile'.rows) = Len(outfile.rows) + 1
          /\ DOMAIN readers' = DOMAIN readers
          /\ \E d \in active_devices :
               /\ \A e \in active_devices :
                      NumberOf(timestamp(readers[d]))
                          <= NumberOf(timestamp(readers[e]))
               /\ readers'[d] = pop_row(readers[d])
               /\ \A e \in DOMAIN readers \ {d} : readers'[e] = readers[e]]_vars

\* C8 case: a merge step is due with both devices on their first rows.
C8_Case ==
    /\ pc = "get_data_loop"
    /\ active_devices = {"A", "B"}
    /\ DOMAIN readers = {"A", "B"}

\* C9: with a reader open on a finite raw data file for every active
\* device, the merge loop ends without error: data retrieval leaves the
\* loop only by returning the combined output, the active set empty.
C9_MergeEndsByReturning ==
    [][(MergeStep /\ active_devices \subseteq DOMAIN readers /\ pc' = "idle")
       => result' = "ok"]_vars

\* C9 case: the merge loop is entered with one device and its reader.
C9_Case ==
    /\ pc = "get_data_loop"
    /\ Cardinality(active_devices) = 1
    /\ active_devices = DOMAIN readers

\* The merge scenario: devices A and B active, their readers on the files
\* with timestamps 0,10,20 and 0,5,15,25.
ScenarioAB ==
    /\ active_devices = {"A", "B"}
    /\ DOMAIN readers = {"A", "B"}
    /\ readers["A"].data = ArtA
    /\ readers["B"].data = ArtB

\* C10: in the merge scenario data retrieval returns with exactly 4 data
\* rows in the combined output.
C10_ScenarioABHasFourRows ==
    [][(pc = "get_data_loop" /\ ScenarioAB /\ pc' = "idle")
       => (result' = "ok" /\ Len(outfile'.rows) = 4)]_vars

\* C10 case: the merge loop is entered in the merge scenario.
C10_Case == pc = "get_data_loop" /\ ScenarioAB

\* The labels of the active channels, in the caller's channel order.
ActiveLabels == [k \in DOMAIN active_channels |-> active_channels[k].label]

\* The combined row the readers' current rows give: for each active channel
\* the value of its source column in the current row of its device's reader.
RowOfCurrent ==
    [k \in DOMAIN active_channels |->
        CurrentDict(readers[active_channels[k].iio_device])
            [active_channels[k].iio_column]]

\* The scenario of device X: one active channel, bus_X on 'vbus mV'.
ScenarioX ==
    /\ iio_devices = <<"X">>
    /\ active_channels = <<ChannelsOf("X")[2]>>

\* C11: the combined output starts with the labels of the active channels in
\* the caller's order; every merge step (each active device with its reader,
\* each requested column in its file) writes one row holding, for each active
\* channel, the value of its source column in the current row of its
\* device's reader; and for device X with rows (0, 100), (10, 105) and the
\* one channel bus_X the output is the header [bus_X] and the rows [100],
\* [105].
C11_RowsFollowActiveChannels ==
    [][/\ (/\ MergeStep
           /\ active_devices \subseteq DOMAIN readers
           /\ \A d \in DOMAIN readers :
                  Range(readers[d].columns) \subseteq Range(readers[d].data.header))
          => /\ outfile'.header = ActiveLabels
             /\ outfile'.rows = Append(outfile.rows, RowOfCurrent)
       /\ (/\ pc = "get_data_loop" /\ pc' = "idle"
           /\ ScenarioX
           /\ "X" \in DOMAIN readers /\ readers["X"].data = ArtX)
          => /\ result' = "ok"
             /\ outfile'.header = <<<<"bus", "X", "voltage">>>>
             /\ outfile'.rows = << <<<<1, 0, 0>>>>, <<<<1, 0, 5>>>> >>]_vars

\* C11 case: the merge loop is entered for device X, its reader on the two
\* rows and the header written.
C11_Case ==
    /\ pc = "get_data_loop"
    /\ ScenarioX
    /\ "X" \in DOMAIN readers
    /\ readers["X"].data = ArtX
    /\ outfile.header = <<<<"bus", "X", "voltage">>>>
    /\ outfile.rows = <<>>

\* The active devices no reader was opened for.
Readerless == active_devices \ DOMAIN readers

\* C12: when a device with an active channel has a zero-length raw data
\* file, data retrieval does not fail: whenever get_data() ends from the
\* merge loop with such a device, it ends by returning the combined output,
\* and no reader was opened on the empty file.
C12_EmptyArtifactIsSkipped ==
    [][(pc = "get_data_loop" /\ pc' = "idle" /\ Readerless # {})
       => /\ result' = "ok"
          /\ \A d \in DOMAIN readers : FileSize(readers[d].data) # 0]_vars

\* C12 case: the merge loop is entered with the file of A empty and a reader
\* on the file of B.
C12_Case ==
    /\ pc = "get_data_loop"
    /\ Readerless = {"A"}
    /\ DOMAIN readers = {"B"}

\* The configured devices with no channel in the active set.
Unselected ==
    {d \in Range(iio_devices) :
        \A k \in DOMAIN active_channels : active_channels[k].iio_device # d}

\* C13: during data retrieval a configured device with no channel in the
\* active set has no reader open, and no label of the header of the combined
\* output is one of its channels.
C13_UnselectedDeviceTakesNoPart ==
    pc = "get_data_loop"
        => \A d \in Unselected :
               /\ d \notin DOMAIN readers
               /\ \A k \in DOMAIN outfile.header : outfile.header[k][2] # d

\* C13 case: data retrieval is under way with A selected and B not, the
\* capture of B in its raw data file.
C13_Witness ==
    /\ pc = "get_data_loop"
    /\ iio_devices = <<"A", "B">>
    /\ Unselected = {"B"}
    /\ DOMAIN readers = {"A"}
    /\ files[raw_data_files[2]].exists
    /\ files[raw_data_files[2]].data = ArtB
    /\ outfile.header # <<>>

\* A reader has been opened on a file whose header lacks one of the columns
\* requested of it.
MissingColumn(reader) ==
    ~(Range(reader.columns) \subseteq Range(reader.data.header))

\* C14: a missing column is reported when the reader is opened, not later
\* during the merge: get_data() never enters the merge loop with a reader
\* whose file's header lacks a requested column, and every reader it has
\* opened is at its first data row.
C14_MissingColumnFailsAtOpen ==
    [][(pc = "idle" /\ pc' = "get_data_loop")
       => \A d \in DOMAIN readers' :
              /\ ~MissingColumn(readers'[d])
              /\ readers'[d].pos = 1
              /\ ~readers'[d].finished]_vars

\* C14 case: the merge loop is entered with the reader of device M, whose
\* file has no 'vbus mV' column.
C14_Case ==
    /\ pc = "get_data_loop"
    /\ "M" \in DOMAIN readers
    /\ MissingColumn(readers["M"])
    /\ "vbus mV" \in Range(readers["M"].columns)

\* C15: within the iteration of stop() for device i every step is applied to
\* the handle of device i, the loop variable, which is always bound: no step
\* after the poll loop (drain, kill, exit-status check, output read) fails
\* looking up a process slot of the instrument.
C15_StepsUseOwnHandle ==
    [][StopActs => ~(pc' = "idle" /\ result' = "AttributeError")]_vars

\* C15 case: with two devices, the poll loop of the first has ended with its
\* process exited, and the exit-status check is due.
C15_Case ==
    /\ pc = "stop_exited"
    /\ Len(processes) = 2
    /\ stop_i = 1
    /\ ~StopProc.alive

\* C16: for each device stop() has sent the termination signal before it
\* polls, and polls at most timeout_secs = 10 times; the else branch of the
\* poll loop, which holds the kill, is entered only when all 10 polls found
\* the process running, and a process found exited within the grace window
\* takes stop() past that branch.
C16_TerminateThenBoundedPolls ==
    /\ pc \in {"stop_poll", "stop_timeout", "stop_exited"}
           => StopProc.term /\ polls <= timeout_secs
    /\ pc = "stop_poll" => polls < timeout_secs
    /\ pc = "stop_timeout" => polls = timeout_secs
    /\ pc = "stop_exited" => ~StopProc.alive /\ polls < timeout_secs

\* C16 case: the process was found exited at the tenth poll, after nine
\* polls that found it running.
C16_Witness ==
    /\ pc = "stop_exited"
    /\ polls = timeout_secs - 1
    /\ StopProc.term

\* C17: the merge compares timestamps as numbers: the device line 168
\* selects for advancing is one whose current timestamp, as a number, is the
\* least among the active devices (a reader at 5 before a reader at 10).
C17_TimestampsComparedAsNumbers ==
    (pc = "get_data_loop" /\ active_devices # {}
        /\ active_devices \subseteq DOMAIN readers)
        => \A d \in MinDevices :
               \A e \in active_devices :
                   NumberOf(timestamp(readers[d]))
                       <= NumberOf(timestamp(readers[e]))

\* C17 case: the merge loop with the reader of P at timestamp 5 and the
\* reader of Q at timestamp 10.
C17_Case ==
    /\ pc = "get_data_loop"
    /\ active_devices = {"P", "Q"}
    /\ DOMAIN readers = {"P", "Q"}
    /\ timestamp(readers["P"]) = <<5>>
    /\ timestamp(readers["Q"]) = <<1, 0>>

\* C18: in every state of the merge loop the devices the loop iterates over
\* and the devices of the channels it reads are devices a reader was opened
\* for.
C18_MergeDevicesHaveReaders ==
    pc = "get_data_loop"
        => /\ active_devices \subseteq DOMAIN readers
           /\ \A k \in DOMAIN active_channels :
                  active_channels[k].iio_device \in DOMAIN readers

\* C18 case: the merge loop with both devices active, a reader on the file
\* of A, and the file of B empty.
C18_Case ==
    /\ pc = "get_data_loop"
    /\ active_devices = {"A", "B"}
    /\ DOMAIN readers = {"A"}

\* C19: when stop() ends, by returning or by raising, none of the processes
\* the preceding start() launched is still running.
C19_StopLeavesNoProcess ==
    [][(pc \in {"stop_terminate", "stop_poll", "stop_timeout", "stop_exited"}
            /\ pc' = "idle")
       => \A i \in DOMAIN processes : ~procs'[processes[i]].alive]_vars

\* C19 case: stop() is in the iteration of the first of two devices, the
\* process of the second still running.
C19_Case ==
    /\ pc = "stop_exited"
    /\ Len(processes) = 2
    /\ stop_i = 1
    /\ procs[processes[2]].alive

\* C20: when stop() pairs the processes of a start() that launched one per
\* command with the raw data files, the two lists have the same length and
\* the i-th process is the one launched to write the i-th file, also after a
\* reset issued while the processes were running.
C20_ProcessesPairWithTheirFiles ==
    (pc = "stop_terminate" /\ Len(processes) = Len(commands))
        => /\ Len(processes) = Len(raw_data_files)
           /\ \A i \in DOMAIN processes :
                  procs[processes[i]].outfile = raw_data_files[i]

\* C20 case: stop() has paired the lists after a reset that came while the
\* process of the first device was running.
C20_Case ==
    /\ pc = "stop_terminate"
    /\ Len(processes) = Len(raw_data_files)
    /\ procs[processes[1]].alive
    /\ raw_data_files[1] > procs[processes[1]].outfile

====
